---------------------------- MODULE Spec2Model ----------------------------
(***************************************************************************)
(* SecureAPIs request admission pipeline (src/src/core.rs) with its        *)
(* threat scorer, the per-request SecurityContext and the two transport    *)
(* bindings' error mapping (src/src/ffi.rs, src/src/integrations/axum.rs). *)
(*                                                                         *)
(* Text that the code searches, lower-cases or splits (the URI, header     *)
(* values, the client identifier) is a sequence of one-character strings.  *)
(* Text that the code only stores or compares (header names, reasons,      *)
(* messages, methods) is a TLA+ string.                                    *)
(* Option<T> is a sequence of length at most one: <<>> is None, <<x>> is   *)
(* Some(x).                                                                *)
(***************************************************************************)
EXTENDS Integers, Sequences, FiniteSets, TLC

VARIABLES
    config,     \* Arc<SecurityConfig>: immutable after SecurityLayer::new
    ui,         \* Option<Arc<UIState>> and the sink's counters and log
    limiter,    \* RateLimiter: per client identifier, the checks it has seen
    monitor,    \* Monitor: the number of requests logged by log_request
    tasks,      \* per caller task: position in process_request and its locals
    nextId,     \* admissions started so far (source of fresh request ids)
    recent,     \* history: the most recent completed admissions, newest last
    returned,   \* history: how many admissions have returned Ok and Err
    response    \* what the transport bindings make of the latest result

vars ==
    <<config, ui, limiter, monitor, tasks, nextId, recent, returned,
      response>>

---------------------------------------------------------------------------
(* Bounds of the model *)

\* Number of admissions started in one behaviour.
MaxAdmissions == 2

\* Number of caller tasks that may run process_request.
NumTasks == 2

\* Capacity of the sink's bounded request log (spec default: 1024).
LogCapacity == 2

\* Number of completed admissions kept in the history variable.
KeepRecent == 2

Tasks == 1..NumTasks

---------------------------------------------------------------------------
(* Option<T> *)

None == <<>>

Some(x) == <<x>>

IsSome(o) == Len(o) = 1

Unwrap(o) == o[1]

---------------------------------------------------------------------------
(* u32 arithmetic.  TLC integers are 32-bit signed, so a u32 is kept as two *)
(* 16-bit limbs: value = hi * 65536 + lo.                                   *)

Limb == 256 * 256

U32(n) == [hi |-> n \div Limb, lo |-> n % Limb]

U32Max == [hi |-> Limb - 1, lo |-> Limb - 1]

\* a >= n for a u32 a and a small natural n < 65536
U32Geq(a, n) == a.hi > 0 \/ a.lo >= n

\* a > n for a u32 a and a small natural n < 65536
U32Gt(a, n) == a.hi > 0 \/ a.lo > n

\* u32::saturating_add
saturating_add(a, b) ==
    LET lo == a.lo + b.lo
        hi == a.hi + b.hi + (lo \div Limb)
    IN  IF hi >= Limb THEN U32Max ELSE [hi |-> hi, lo |-> lo % Limb]

\* `threat_score as f64`: every u32 is exactly representable in an f64
\* (53-bit mantissa), so the cast keeps the value and changes the type.
AsF64(u) == [f64 |-> u]

F64Zero == [f64 |-> U32(0)]

---------------------------------------------------------------------------
(* str operations *)

\* The grave accent U+0060, which a TLA+ string literal cannot hold
Backtick == "backtick"

\* str::contains(pat)
Contains(s, pat) ==
    \E i \in 1..(Len(s) - Len(pat) + 1) : SubSeq(s, i, i + Len(pat) - 1) = pat

\* char::to_lowercase on the ASCII letters
LowerChar(c) ==
    CASE c = "A" -> "a" [] c = "B" -> "b" [] c = "C" -> "c" [] c = "D" -> "d"
      [] c = "E" -> "e" [] c = "F" -> "f" [] c = "G" -> "g" [] c = "H" -> "h"
      [] c = "I" -> "i" [] c = "J" -> "j" [] c = "K" -> "k" [] c = "L" -> "l"
      [] c = "M" -> "m" [] c = "N" -> "n" [] c = "O" -> "o" [] c = "P" -> "p"
      [] c = "Q" -> "q" [] c = "R" -> "r" [] c = "S" -> "s" [] c = "T" -> "t"
      [] c = "U" -> "u" [] c = "V" -> "v" [] c = "W" -> "w" [] c = "X" -> "x"
      [] c = "Y" -> "y" [] c = "Z" -> "z" [] OTHER -> c

\* str::to_lowercase
to_lowercase(s) == [i \in 1..Len(s) |-> LowerChar(s[i])]

\* Index of the first occurrence of character c in s, or 0
IndexOf(s, c) ==
    IF \E i \in 1..Len(s) : s[i] = c
    THEN CHOOSE i \in 1..Len(s) : s[i] = c /\ \A j \in 1..(i - 1) : s[j] # c
    ELSE 0

\* s.split(c).next(): the text before the first c, the whole of s without one
SplitFirst(s, c) ==
    IF IndexOf(s, c) = 0 THEN s ELSE SubSeq(s, 1, IndexOf(s, c) - 1)

---------------------------------------------------------------------------
(* HTTP request.  A request is [method, uri, headers]; headers is the      *)
(* sequence of (name, value) entries of the HeaderMap.  A header value is  *)
(* [text, pad, str]: the bytes text followed by pad filler bytes "x" that  *)
(* are not written out (a long value), and str tells whether to_str()      *)
(* succeeds (the value is visible ASCII).                                  *)

HeaderValue(text) == [text |-> text, pad |-> 0, str |-> TRUE]

Header(name, value) == [name |-> name, value |-> value]

\* HeaderValue::to_str(): Some(text) for visible ASCII, None otherwise
to_str(v) ==
    IF v.str THEN Some(v.text \o [i \in 1..v.pad |-> "x"]) ELSE None

\* value_str.len()
ValueLen(v) == Len(v.text) + v.pad

\* HeaderMap::get(name): the first value stored under the name
HeaderGet(headers, name) ==
    IF \E i \in 1..Len(headers) : headers[i].name = name
    THEN Some(headers[CHOOSE i \in 1..Len(headers) :
                 /\ headers[i].name = name
                 /\ \A j \in 1..(i - 1) : headers[j].name # name].value)
    ELSE None

\* headers.get(name).and_then(|h| h.to_str().ok())
HeaderStr(headers, name) ==
    IF IsSome(HeaderGet(headers, name))
    THEN to_str(Unwrap(HeaderGet(headers, name)))
    ELSE None

\* request.uri().to_string() for an origin-form URI: path and query as held
UriToString(uri) == uri

\* request.uri().path(): the part before the query
UriPath(uri) == SplitFirst(uri, "?")

StrUnknown == <<"u","n","k","n","o","w","n">>

\* Mutant of extract_client_ip: x-real-ip is tried before x-forwarded-for
extract_client_ip_real_first(request) ==
    LET xff == HeaderStr(request.headers, "x-forwarded-for")
        real == HeaderStr(request.headers, "x-real-ip")
    IN  IF IsSome(real) THEN Unwrap(real)
        ELSE IF IsSome(xff) THEN SplitFirst(Unwrap(xff), ",")
        ELSE StrUnknown

\* SecurityLayer::extract_client_ip
extract_client_ip(request) ==
    LET xff == HeaderStr(request.headers, "x-forwarded-for")
        real == HeaderStr(request.headers, "x-real-ip")
    IN  IF IsSome(xff) THEN SplitFirst(Unwrap(xff), ",")
        ELSE IF IsSome(real) THEN Unwrap(real)
        ELSE StrUnknown

\* The user_agent local of process_request
UserAgentOf(request) ==
    IF IsSome(HeaderStr(request.headers, "user-agent"))
    THEN Unwrap(HeaderStr(request.headers, "user-agent"))
    ELSE StrUnknown

---------------------------------------------------------------------------
(* SecurityError and SecurityResult *)

RateLimitExceeded(retry_after) ==
    [type |-> "RateLimitExceeded", retry_after |-> retry_after]

AuthenticationFailed(msg) == [type |-> "AuthenticationFailed", msg |-> msg]

InvalidInput(reason, field) ==
    [type |-> "InvalidInput", reason |-> reason, field |-> field]

ThreatDetected(threat_type, severity) ==
    [type |-> "ThreatDetected", threat_type |-> threat_type,
     severity |-> severity]

AuthorizationFailed(msg) == [type |-> "AuthorizationFailed", msg |-> msg]

ConfigError(msg) == [type |-> "ConfigError", msg |-> msg]

InternalError(msg) == [type |-> "InternalError", msg |-> msg]

CorsViolation(msg) == [type |-> "CorsViolation", msg |-> msg]

CsrfViolation(msg) == [type |-> "CsrfViolation", msg |-> msg]

HttpsRequired == [type |-> "HttpsRequired"]

TransportLayerViolation(msg) ==
    [type |-> "TransportLayerViolation", msg |-> msg]

IpBlocked(msg) == [type |-> "IpBlocked", msg |-> msg]

VpnDetected(msg) == [type |-> "VpnDetected", msg |-> msg]

ProxyDetected(msg) == [type |-> "ProxyDetected", msg |-> msg]

RequestTimeout(msg) == [type |-> "RequestTimeout", msg |-> msg]

ConnectionTimeout(msg) == [type |-> "ConnectionTimeout", msg |-> msg]

ReplayDetected(msg) == [type |-> "ReplayDetected", msg |-> msg]

Ok(v) == [ok |-> TRUE, value |-> v]

Err(e) == [ok |-> FALSE, error |-> e]

---------------------------------------------------------------------------
(* SecurityContext *)

\* SecurityContext::new
ContextNew(request_id, client_ip) ==
    [request_id |-> request_id, client_ip |-> client_ip, user_id |-> None,
     authenticated |-> FALSE, roles |-> <<>>, threat_score |-> U32(0),
     metadata |-> {}]

\* Mutant of with_user: the authenticated flag is left as it was
with_user_unflagged(ctx, user_id, roles) ==
    [ctx EXCEPT !.user_id = Some(user_id), !.roles = roles]

\* SecurityContext::with_user
with_user(ctx, user_id, roles) ==
    [ctx EXCEPT !.user_id = Some(user_id), !.authenticated = TRUE,
                !.roles = roles]

\* Mutant of add_threat_score: the addition wraps around
add_threat_score_wrapping(ctx, score) ==
    [ctx EXCEPT !.threat_score =
        [hi |-> (@.hi + score.hi + ((@.lo + score.lo) \div Limb)) % Limb,
         lo |-> (@.lo + score.lo) % Limb]]

\* SecurityContext::add_threat_score
add_threat_score(ctx, score) ==
    [ctx EXCEPT !.threat_score = saturating_add(ctx.threat_score, score)]

\* SecurityContext::is_high_risk
is_high_risk(ctx) == U32Gt(ctx.threat_score, 100)

---------------------------------------------------------------------------
(* SecurityLayer::detect_threats: the scoring rules, in the code's order.  *)
(* uri is request.uri().to_string(), lower is uri.to_lowercase().          *)

\* "../" or "..\" present, and "../../../" or "..\..\..\" present
RulePathTraversal(uri) ==
    /\ \/ Contains(uri, <<".",".","/">>)
       \/ Contains(uri, <<".",".","\\">>)
    /\ \/ Contains(uri, <<".",".","/",".",".","/",".",".","/">>)
       \/ Contains(uri, <<".",".","\\",".",".","\\",".",".","\\">>)

\* "..%2f" or "..%5c"
RuleEncodedTraversal(uri) ==
    \/ Contains(uri, <<".",".","%","2","f">>)
    \/ Contains(uri, <<".",".","%","5","c">>)

\* "<script" or "javascript:alert"
RuleScript(lower) ==
    \/ Contains(lower, <<"<","s","c","r","i","p","t">>)
    \/ Contains(lower, <<"j","a","v","a","s","c","r","i","p","t",":",
                         "a","l","e","r","t">>)

\* "onerror=" without "onerror_", or "onload=" without "onload_"
RuleEventHandler(lower) ==
    \/ /\ Contains(lower, <<"o","n","e","r","r","o","r","=">>)
       /\ ~Contains(lower, <<"o","n","e","r","r","o","r","_">>)
    \/ /\ Contains(lower, <<"o","n","l","o","a","d","=">>)
       /\ ~Contains(lower, <<"o","n","l","o","a","d","_">>)

\* "union" and "select"
RuleUnionSelect(lower) ==
    /\ Contains(lower, <<"u","n","i","o","n">>)
    /\ Contains(lower, <<"s","e","l","e","c","t">>)

\* "'; drop" or "'; delete"
RuleDropDelete(lower) ==
    \/ Contains(lower, <<"'",";"," ","d","r","o","p">>)
    \/ Contains(lower, <<"'",";"," ","d","e","l","e","t","e">>)

\* "' or '1'='1" or "1'or'1'='1"
RuleOrTautology(lower) ==
    \/ Contains(lower, <<"'"," ","o","r"," ","'","1","'","=","'","1">>)
    \/ Contains(lower, <<"1","'","o","r","'","1","'","=","'","1">>)

\* a backtick followed by ";" or "|", and "/api/"
RuleCommandInjection(uri) ==
    /\ \/ Contains(uri, <<Backtick,";">>)
       \/ Contains(uri, <<Backtick,"|">>)
    /\ Contains(uri, <<"/","a","p","i","/">>)

\* value_str.len() > 8192
RuleOversize(value) == ValueLen(value) > 8192

\* the user-agent header names a scanning tool
RuleScanner(header) ==
    /\ header.name = "user-agent"
    /\ LET value_lower == to_lowercase(header.value.text)
       IN  \/ Contains(value_lower, <<"s","q","l","m","a","p">>)
           \/ Contains(value_lower, <<"n","i","k","t","o">>)
           \/ Contains(value_lower, <<"n","m","a","p">>)
           \/ Contains(value_lower, <<"m","a","s","s","c","a","n">>)
           \/ Contains(value_lower, <<"b","u","r","p">>)

\* Mutant of AddIf: a matching rule also tags the context's metadata
AddIfTagged(cond, ctx, score) ==
    IF cond
    THEN [add_threat_score(ctx, U32(score)) EXCEPT !.metadata = {"threat"}]
    ELSE ctx

\* Mutant of AddIf: a rule scores only in the first admission the sink counts
AddIfFirstSeen(cond, ctx, score) ==
    IF cond /\ ui.total_requests <= 1
    THEN add_threat_score(ctx, U32(score))
    ELSE ctx

\* When cond holds, context.add_threat_score(score)
AddIf(cond, ctx, score) ==
    IF cond THEN add_threat_score(ctx, U32(score)) ELSE ctx

\* The body of the loop over request.headers() for one header
ScanHeader(ctx, header) ==
    IF header.value.str
    THEN AddIf(RuleScanner(header),
               AddIf(RuleOversize(header.value), ctx, 30), 70)
    ELSE ctx

\* for (header_name, header_value) in request.headers() { ... }
RECURSIVE ScanHeaders(_, _)
ScanHeaders(ctx, headers) ==
    IF headers = <<>> THEN ctx
    ELSE ScanHeaders(ScanHeader(ctx, Head(headers)), Tail(headers))

\* Mutant of BlockDecision: the category threshold is exclusive
BlockDecisionStrict(has_sql_combo, has_xss, has_path_traversal, threat_score) ==
    \/ /\ has_sql_combo \/ has_xss \/ has_path_traversal
       /\ U32Gt(threat_score, 40)
    \/ U32Geq(threat_score, 100)

\* Mutant of BlockDecision: the score threshold is that of is_high_risk
BlockDecisionHighRisk(has_sql_combo, has_xss, has_path_traversal, threat_score) ==
    \/ /\ has_sql_combo \/ has_xss \/ has_path_traversal
       /\ U32Geq(threat_score, 40)
    \/ U32Gt(threat_score, 100)

\* The block decision once block_suspicious is known to be set
BlockDecision(has_sql_combo, has_xss, has_path_traversal, threat_score) ==
    \/ /\ has_sql_combo \/ has_xss \/ has_path_traversal
       /\ U32Geq(threat_score, 40)
    \/ U32Geq(threat_score, 100)

\* SecurityLayer::detect_threats: the context after scoring, the three
\* category locals and the result
detect_threats(cfg, request, context) ==
    LET uri == UriToString(request.uri)
        uri_lower == to_lowercase(uri)
        c1 == AddIf(RulePathTraversal(uri), context, 40)
        c2 == AddIf(RuleEncodedTraversal(uri), c1, 50)
        c3 == AddIf(RuleScript(uri_lower), c2, 60)
        c4 == AddIf(RuleEventHandler(uri_lower), c3, 50)
        c5 == AddIf(RuleUnionSelect(uri_lower), c4, 60)
        c6 == AddIf(RuleDropDelete(uri_lower), c5, 60)
        c7 == AddIf(RuleOrTautology(uri_lower), c6, 60)
        c8 == AddIf(RuleCommandInjection(uri), c7, 50)
        c9 == ScanHeaders(c8, request.headers)
        has_path_traversal ==
            RulePathTraversal(uri) \/ RuleEncodedTraversal(uri)
        has_xss == RuleScript(uri_lower) \/ RuleEventHandler(uri_lower)
        has_sql_combo ==
            \/ RuleUnionSelect(uri_lower)
            \/ RuleDropDelete(uri_lower)
            \/ RuleOrTautology(uri_lower)
        block ==
            /\ cfg.threat_detection.block_suspicious
            /\ BlockDecision(has_sql_combo, has_xss, has_path_traversal,
                             c9.threat_score)
    IN  [context |-> c9,
         has_sql_combo |-> has_sql_combo,
         has_xss |-> has_xss,
         has_path_traversal |-> has_path_traversal,
         result |-> IF block
                    THEN Err(ThreatDetected("Suspicious request pattern",
                                            "High"))
                    ELSE Ok(TRUE)]

---------------------------------------------------------------------------
(* The collaborators whose code is outside this model's sources: the rate  *)
(* limiter, the authenticator, the input validator, the monitor and the    *)
(* sink.  Each is modelled by the contract the pipeline demands of it; the *)
(* result of one call is an input of the action that makes the call.       *)

\* RateLimiter::check: admits, or rejects with or without a retry hint
LimiterOutcomes ==
    {[ok |-> TRUE, hint |-> None],
     [ok |-> FALSE, hint |-> None],
     [ok |-> FALSE, hint |-> Some(30)]}

\* The limiter's state after it has seen one more check of a client
LimiterSee(lim, client) ==
    IF client \in DOMAIN lim
    THEN [lim EXCEPT ![client] = @ + 1]
    ELSE lim @@ (client :> 1)

\* AuthManager::authenticate: Ok(Some(principal)), Ok(None) for a request
\* without credentials, Err for invalid credentials
AuthOutcomes ==
    {[kind |-> "principal", user_id |-> "alice", roles |-> <<"admin">>],
     [kind |-> "none"],
     [kind |-> "invalid",
      error |-> AuthenticationFailed("Invalid credentials")]}

\* InputValidator::validate_request: Ok or Err, after adding add to the
\* context's threat score
ValidatorOutcome(ok, add) ==
    [ok |-> ok, add |-> add,
     error |-> InvalidInput("Malformed body", Some("body"))]

\* UIState::add_request_log: a bounded FIFO, the oldest record evicted
add_request_log(u, log) ==
    LET logs == Append(u.request_logs, log)
    IN  [u EXCEPT !.request_logs =
            IF Len(logs) > LogCapacity THEN Tail(logs) ELSE logs]

\* Mutant of FetchAdd: a plain load and store, whose update is lost
\* whenever another admission is in flight
FetchAddRacy(u, names) ==
    IF Cardinality({t \in Tasks : tasks[t].pc # "idle"}) > 1
    THEN u
    ELSE [n \in DOMAIN u |->
            IF \E i \in 1..Len(names) : names[i] = n
            THEN u[n] + Cardinality({i \in 1..Len(names) : names[i] = n})
            ELSE u[n]]

\* counter.fetch_add(1, Ordering::Relaxed) on each counter named in names
RECURSIVE FetchAdd(_, _)
FetchAdd(u, names) ==
    IF names = <<>> THEN u
    ELSE FetchAdd([u EXCEPT ![Head(names)] = @ + 1], Tail(names))

---------------------------------------------------------------------------
(* SecurityLayer::new and with_ui_state *)

\* SecurityConfig: the options process_request and detect_threats read
Configs ==
    [rate_limit : [enabled : BOOLEAN],
     auth : [enabled : BOOLEAN, require_auth : BOOLEAN],
     validation : [enabled : BOOLEAN],
     threat_detection : [enabled : BOOLEAN, block_suspicious : BOOLEAN],
     monitoring : [enabled : BOOLEAN]]

\* The sink: ui_state is None (attached = FALSE) after SecurityLayer::new
\* and Some after with_ui_state
NewUIState(attached) ==
    [attached |-> attached, total_requests |-> 0, blocked_requests |-> 0,
     rate_limited |-> 0, auth_failures |-> 0, validation_failures |-> 0,
     request_logs |-> <<>>]

IdleTask == [pc |-> "idle"]

\* The layer after construction, with cfgs the configurations considered
InitWith(cfgs) ==
    /\ config \in cfgs
    /\ \E attached \in BOOLEAN : ui = NewUIState(attached)
    /\ limiter = <<>>
    /\ monitor = 0
    /\ tasks = [t \in Tasks |-> IdleTask]
    /\ nextId = 0
    /\ recent = <<>>
    /\ returned = [ok |-> 0, err |-> 0]
    /\ response = None

Init == InitWith(Configs)

---------------------------------------------------------------------------
(* The transport bindings: what each makes of the result of an admission *)

\* secureapis_check_request: the status code of SecurityCheckResult
ffi_status_code(result) ==
    IF result.ok THEN 200
    ELSE CASE result.error.type = "RateLimitExceeded" -> 429
           [] result.error.type = "AuthenticationFailed" -> 401
           [] result.error.type = "AuthorizationFailed" -> 403
           [] result.error.type = "InvalidInput" -> 400
           [] result.error.type = "ThreatDetected" -> 403
           [] result.error.type = "CorsViolation" -> 403
           [] result.error.type = "CsrfViolation" -> 403
           [] result.error.type = "HttpsRequired" -> 403
           [] OTHER -> 500

\* AxumSecurityMiddleware::handle: the status of the response to an error;
\* an admitted request is handed to the next handler, which answers it
axum_status(result) ==
    IF result.ok THEN "next.run"
    ELSE CASE result.error.type = "RateLimitExceeded" -> 429
           [] result.error.type = "AuthenticationFailed" -> 401
           [] result.error.type = "AuthorizationFailed" -> 403
           [] result.error.type = "InvalidInput" -> 400
           [] result.error.type = "ThreatDetected" -> 403
           [] OTHER -> 500

\* The two bindings' answers to one result of process_request
Responses(result) ==
    Some([result |-> result, ffi |-> ffi_status_code(result),
          axum |-> axum_status(result)])

---------------------------------------------------------------------------
(* SecurityLayer::process_request.  One action per run of code between two *)
(* await points; tk is the task's locals as the action leaves them.  The   *)
(* fields calls, incs, appended, lim, auth, val and scored of a task are   *)
(* history: the checkers this admission has invoked, the sink counters it  *)
(* has incremented, the records it has appended and the checkers' answers. *)
(* The record's timestamp (Utc::now()) is left out.                        *)

\* crate::ui::state::RequestLog as process_request fills it in
RequestLog(tk, user_id, status_code, threat_score, blocked, reason) ==
    [id |-> tk.request_id, method |-> tk.method, path |-> tk.path,
     client_ip |-> tk.client_ip, user_agent |-> tk.user_agent,
     user_id |-> user_id, status_code |-> status_code,
     response_time_ms |-> F64Zero, threat_score |-> threat_score,
     blocked |-> blocked, reason |-> reason, headers |-> {}]

\* The blocked record of a rate-limit rejection, lines 205-219
RateLimitedLog(tk) ==
    RequestLog(tk, None, 429, F64Zero, TRUE, Some("Rate limit exceeded"))

\* The blocked record of a missing-credentials rejection, lines 235-249
AuthFailedLog(tk) ==
    RequestLog(tk, None, 401, F64Zero, TRUE, Some("Authentication failed"))

\* The blocked record of a validation rejection, lines 265-279
ValidationFailedLog(tk) ==
    RequestLog(tk, tk.context.user_id, 400, AsF64(tk.context.threat_score),
               TRUE, Some("Validation failed"))

\* Mutant of ThreatLog: the score is the literal 0.0 of the earlier records
ThreatLogUnscored(tk) ==
    RequestLog(tk, tk.context.user_id, 403, F64Zero, TRUE,
               Some("Threat detected"))

\* The blocked record of a threat rejection, lines 295-309
ThreatLog(tk) ==
    RequestLog(tk, tk.context.user_id, 403, AsF64(tk.context.threat_score),
               TRUE, Some("Threat detected"))

\* Mutant of AdmittedLog: the admitted record is marked blocked
AdmittedLogBlocked(tk) ==
    RequestLog(tk, tk.context.user_id, 200, AsF64(tk.context.threat_score),
               TRUE, Some("Threat detected"))

\* The record of an admitted request, lines 326-340
AdmittedLog(tk) ==
    RequestLog(tk, tk.context.user_id, 200, AsF64(tk.context.threat_score),
               FALSE, None)

\* The history after one more admission has returned
Remember(hist, done) ==
    LET h == Append(hist, done)
    IN  IF Len(h) > KeepRecent THEN Tail(h) ELSE h

\* process_request returns result to its caller
Return(t, tk, result) ==
    /\ tasks' = [tasks EXCEPT ![t] = IdleTask]
    /\ recent' = Remember(recent, [tk EXCEPT !.ret = Some(result)])
    /\ returned' = IF result.ok THEN [returned EXCEPT !.ok = @ + 1]
                                ELSE [returned EXCEPT !.err = @ + 1]
    /\ response' = Responses(result)

\* The task moves on to the next stage
Goto(t, tk, pc) ==
    /\ tasks' = [tasks EXCEPT ![t] = [tk EXCEPT !.pc = pc]]
    /\ UNCHANGED <<recent, returned, response>>

\* Mutant of Block: a layer without a sink admits what it cannot record
BlockSinkOnly(t, tk, counters, log, error) ==
    IF ui.attached
    THEN /\ ui' = FetchAdd(ui, counters)
         /\ Goto(t, [tk EXCEPT !.log = Some(log), !.ret = Some(Err(error)),
                               !.incs = @ \o counters], "log")
    ELSE /\ UNCHANGED ui
         /\ Return(t, tk, Ok(tk.context))

\* Mutant of Block: the blocked record is appended without being counted
BlockUncounted(t, tk, counters, log, error) ==
    IF ui.attached
    THEN /\ ui' = ui
         /\ Goto(t, [tk EXCEPT !.log = Some(log), !.ret = Some(Err(error))],
                 "log")
    ELSE /\ UNCHANGED ui
         /\ Return(t, tk, Err(error))

\* A recording rejection: with a sink, bump the counters and go on to append
\* the blocked record; then (or at once without a sink) return the error
Block(t, tk, counters, log, error) ==
    IF ui.attached
    THEN /\ ui' = FetchAdd(ui, counters)
         /\ Goto(t, [tk EXCEPT !.log = Some(log), !.ret = Some(Err(error)),
                               !.incs = @ \o counters], "log")
    ELSE /\ UNCHANGED ui
         /\ Return(t, tk, Err(error))

\* Mutant of RateLimitError: the limiter's retry hint is passed on
RateLimitErrorHint(outcome) ==
    RateLimitExceeded(IF IsSome(outcome.hint) THEN Unwrap(outcome.hint)
                                              ELSE 60)

\* The error process_request returns when the rate limiter rejects
RateLimitError(outcome) == RateLimitExceeded(60)

\* Lines 179-196: the locals, the context, total_requests += 1
Begin(t, request) ==
    /\ tasks[t].pc = "idle"
    /\ nextId < MaxAdmissions
    /\ nextId' = nextId + 1
    /\ tasks' = [tasks EXCEPT ![t] =
          [pc |-> "rate", request |-> request, request_id |-> nextId + 1,
           client_ip |-> extract_client_ip(request),
           method |-> request.method, path |-> UriPath(request.uri),
           user_agent |-> UserAgentOf(request),
           context |-> ContextNew(nextId + 1, extract_client_ip(request)),
           log |-> None, ret |-> None, calls |-> <<>>,
           incs |-> IF ui.attached THEN <<"total_requests">> ELSE <<>>,
           appended |-> 0, lim |-> None, auth |-> None, val |-> None,
           scored |-> None]]
    /\ ui' = IF ui.attached THEN FetchAdd(ui, <<"total_requests">>) ELSE ui
    /\ UNCHANGED <<config, limiter, monitor, recent, returned, response>>

\* Stage 1, lines 198-224
RateLimit(t, outcome) ==
    /\ tasks[t].pc = "rate"
    /\ UNCHANGED <<config, monitor, nextId>>
    /\ IF ~config.rate_limit.enabled
       THEN /\ Goto(t, tasks[t], "auth")
            /\ UNCHANGED <<ui, limiter>>
       ELSE LET tk == [tasks[t] EXCEPT !.calls = Append(@, "rate_limiter"),
                                       !.lim = Some(outcome)]
            IN  /\ limiter' = LimiterSee(limiter, tk.client_ip)
                /\ IF outcome.ok
                   THEN /\ Goto(t, tk, "auth")
                        /\ UNCHANGED ui
                   ELSE Block(t, tk, <<"rate_limited", "blocked_requests">>,
                              RateLimitedLog(tk),
                              RateLimitError(outcome))

\* Mutant of AuthBranch: an authenticator error is dropped, not propagated
AuthBranchIgnoreErr(outcome) ==
    CASE outcome.kind = "principal" -> "user"
      [] outcome.kind = "none" /\ config.auth.require_auth -> "reject"
      [] OTHER -> "pass"

\* Mutant of AuthBranch: require_auth is not consulted
AuthBranchOptional(outcome) ==
    CASE outcome.kind = "invalid" -> "propagate"
      [] outcome.kind = "principal" -> "user"
      [] OTHER -> "pass"

\* Mutant of AuthBranch: credentials are required whatever require_auth is
AuthBranchRequired(outcome) ==
    CASE outcome.kind = "invalid" -> "propagate"
      [] outcome.kind = "principal" -> "user"
      [] OTHER -> "reject"

\* What stage 2 does with the authenticator's answer: "propagate" is the `?`
\* on Err, "user" the principal branch, "reject" the require_auth branch
AuthBranch(outcome) ==
    CASE outcome.kind = "invalid" -> "propagate"
      [] outcome.kind = "principal" -> "user"
      [] OTHER -> IF config.auth.require_auth THEN "reject" ELSE "pass"

\* Stage 2, lines 226-256
Authenticate(t, outcome) ==
    /\ tasks[t].pc = "auth"
    /\ UNCHANGED <<config, limiter, monitor, nextId>>
    /\ IF ~config.auth.enabled
       THEN /\ Goto(t, tasks[t], "validate")
            /\ UNCHANGED ui
       ELSE LET tk == [tasks[t] EXCEPT !.calls = Append(@, "auth_manager"),
                                       !.auth = Some(outcome)]
                branch == AuthBranch(outcome)
            IN  CASE branch = "propagate" ->
                       /\ Return(t, tk, Err(outcome.error))
                       /\ UNCHANGED ui
                  [] branch = "user" ->
                       /\ Goto(t, [tk EXCEPT !.context =
                                      with_user(@, outcome.user_id,
                                                outcome.roles)], "validate")
                       /\ UNCHANGED ui
                  [] branch = "reject" ->
                       Block(t, tk, <<"auth_failures", "blocked_requests">>,
                             AuthFailedLog(tk),
                             AuthenticationFailed("Authentication required"))
                  [] OTHER ->
                       /\ Goto(t, tk, "validate")
                       /\ UNCHANGED ui

\* Stage 3, lines 258-287
Validate(t, outcome) ==
    /\ tasks[t].pc = "validate"
    /\ UNCHANGED <<config, limiter, monitor, nextId>>
    /\ IF ~config.validation.enabled
       THEN /\ Goto(t, tasks[t], "threats")
            /\ UNCHANGED ui
       ELSE LET tk == [tasks[t] EXCEPT
                          !.calls = Append(@, "validator"),
                          !.val = Some(outcome),
                          !.context = add_threat_score(@, outcome.add)]
            IN  IF outcome.ok
                THEN /\ Goto(t, tk, "threats")
                     /\ UNCHANGED ui
                ELSE Block(t, tk,
                           <<"validation_failures", "blocked_requests">>,
                           ValidationFailedLog(tk),
                           InvalidInput("Input validation failed", None))

\* Stage 4, lines 289-317
DetectThreats(t) ==
    /\ tasks[t].pc = "threats"
    /\ UNCHANGED <<config, limiter, monitor, nextId>>
    /\ IF ~config.threat_detection.enabled
       THEN /\ Goto(t, tasks[t], "monitor")
            /\ UNCHANGED ui
       ELSE LET r == detect_threats(config, tasks[t].request,
                                    tasks[t].context)
                tk == [tasks[t] EXCEPT
                          !.calls = Append(@, "detect_threats"),
                          !.scored = Some([r EXCEPT !.context = TRUE]),
                          !.context = r.context]
            IN  IF r.result.ok
                THEN /\ Goto(t, tk, "monitor")
                     /\ UNCHANGED ui
                ELSE Block(t, tk, <<"blocked_requests">>,
                           ThreatLog(tk),
                           ThreatDetected("Suspicious request pattern",
                                          "High"))

\* Stage 5 and the success path, lines 319-344
Monitoring(t) ==
    /\ tasks[t].pc = "monitor"
    /\ UNCHANGED <<config, limiter, nextId, ui>>
    /\ monitor' = IF config.monitoring.enabled THEN monitor + 1 ELSE monitor
    /\ LET tk == IF config.monitoring.enabled
                 THEN [tasks[t] EXCEPT !.calls = Append(@, "monitor")]
                 ELSE tasks[t]
       IN  IF ui.attached
           THEN Goto(t, [tk EXCEPT !.log = Some(AdmittedLog(tk)),
                                   !.ret = Some(Ok(tk.context))], "log")
           ELSE Return(t, tk, Ok(tk.context))

\* ui_state.add_request_log(log).await, then the return that follows it
AddRequestLog(t) ==
    /\ tasks[t].pc = "log"
    /\ UNCHANGED <<config, limiter, monitor, nextId>>
    /\ ui' = add_request_log(ui, Unwrap(tasks[t].log))
    /\ Return(t, [tasks[t] EXCEPT !.appended = @ + 1], Unwrap(tasks[t].ret))

---------------------------------------------------------------------------
(* The requests and checker answers the callers and collaborators supply *)

\* GET /api/v1/users/42 from 10.0.0.1 with user-agent curl/8
ReqBenign ==
    [method |-> "GET",
     uri |-> <<"/","a","p","i","/","v","1","/","u","s","e","r","s","/",
               "4","2">>,
     headers |-> <<Header("user-agent",
                          HeaderValue(<<"c","u","r","l","/","8">>)),
                   Header("x-forwarded-for",
                          HeaderValue(<<"1","0",".","0",".","0",".","1">>))>>]

\* GET /files?p=../../../etc/passwd with x-real-ip 10.0.0.2, no user-agent
ReqTraversal ==
    [method |-> "GET",
     uri |-> <<"/","f","i","l","e","s","?","p","=",".",".","/",".",".","/",
               ".",".","/","e","t","c","/","p","a","s","s","w","d">>,
     headers |-> <<Header("x-real-ip",
                          HeaderValue(<<"1","0",".","0",".","0",".","2">>))>>]

\* POST / with user-agent sqlmap/1.7 and no forwarding header
ReqScanner ==
    [method |-> "POST",
     uri |-> <<"/">>,
     headers |-> <<Header("user-agent",
                          HeaderValue(<<"s","q","l","m","a","p","/","1",".",
                                        "7">>))>>]

\* GET /files/..\..\..\boot.ini
ReqBackslash ==
    [method |-> "GET",
     uri |-> <<"/","f","i","l","e","s","/",".",".","\\",".",".","\\",".",
               ".","\\","b","o","o","t",".","i","n","i">>,
     headers |-> <<>>]

\* GET /a/../b: one traversal step only
ReqSingleDotDot ==
    [method |-> "GET",
     uri |-> <<"/","a","/",".",".","/","b">>,
     headers |-> <<>>]

\* GET /files?p=..%2fetc
ReqEncoded ==
    [method |-> "GET",
     uri |-> <<"/","f","i","l","e","s","?","p","=",".",".","%","2","f","e",
               "t","c">>,
     headers |-> <<>>]

\* GET /files?p=..%2Fetc: upper-case escape
ReqEncodedUpper ==
    [method |-> "GET",
     uri |-> <<"/","f","i","l","e","s","?","p","=",".",".","%","2","F","e",
               "t","c">>,
     headers |-> <<>>]

\* GET /r?u=JavaScript:alert(1)
ReqJsAlert ==
    [method |-> "GET",
     uri |-> <<"/","r","?","u","=","J","a","v","a","S","c","r","i","p","t",
               ":","a","l","e","r","t","(","1",")">>,
     headers |-> <<>>]

\* GET /p?x=onerror=a
ReqOnerror ==
    [method |-> "GET",
     uri |-> <<"/","p","?","x","=","o","n","e","r","r","o","r","=","a">>,
     headers |-> <<>>]

\* GET /p?onerror_x=1&onerror=a
ReqOnerrorShadowed ==
    [method |-> "GET",
     uri |-> <<"/","p","?","o","n","e","r","r","o","r","_","x","=","1","&",
               "o","n","e","r","r","o","r","=","a">>,
     headers |-> <<>>]

\* GET /p?onerror_x=1&OnLoad=a
ReqOnload ==
    [method |-> "GET",
     uri |-> <<"/","p","?","o","n","e","r","r","o","r","_","x","=","1","&",
               "O","n","L","o","a","d","=","a">>,
     headers |-> <<>>]

\* GET /search?q=union+select+*+from+users
ReqUnionSelect ==
    [method |-> "GET",
     uri |-> <<"/","s","e","a","r","c","h","?","q","=","u","n","i","o","n",
               "+","s","e","l","e","c","t","+","*","+","f","r","o","m","+",
               "u","s","e","r","s">>,
     headers |-> <<>>]

\* GET /search?q=union+station
ReqUnionOnly ==
    [method |-> "GET",
     uri |-> <<"/","s","e","a","r","c","h","?","q","=","u","n","i","o","n",
               "+","s","t","a","t","i","o","n">>,
     headers |-> <<>>]

\* GET /u?id=1'or'1'='1
ReqOrTautology ==
    [method |-> "GET",
     uri |-> <<"/","u","?","i","d","=","1","'","o","r","'","1","'","=","'",
               "1">>,
     headers |-> <<>>]

\* GET /api/run?c= followed by a backtick and |ls
ReqCmdInjection ==
    [method |-> "GET",
     uri |-> <<"/","a","p","i","/","r","u","n","?","c","=",Backtick,"|",
               "l","s">>,
     headers |-> <<>>]

\* GET /run?c= followed by a backtick and |ls, not under /api/
ReqCmdNoApi ==
    [method |-> "GET",
     uri |-> <<"/","r","u","n","?","c","=",Backtick,"|","l","s">>,
     headers |-> <<>>]

\* GET / with one cookie value of 8193 bytes
ReqOversize ==
    [method |-> "GET",
     uri |-> <<"/">>,
     headers |-> <<Header("cookie",
                          [text |-> <<"s","i","d","=">>,
                           pad |-> 8189, str |-> TRUE])>>]

\* GET / with two header values of 8193 bytes
ReqOversizeTwo ==
    [method |-> "GET",
     uri |-> <<"/">>,
     headers |-> <<Header("cookie",
                          [text |-> <<"s","i","d","=">>,
                           pad |-> 8189, str |-> TRUE]),
                   Header("x-trace",
                          [text |-> <<"t","=">>,
                           pad |-> 8191, str |-> TRUE])>>]

\* GET / with a cookie value of exactly 8192 bytes
ReqAtLimit ==
    [method |-> "GET",
     uri |-> <<"/">>,
     headers |-> <<Header("cookie",
                          [text |-> <<"s","i","d","=">>,
                           pad |-> 8188, str |-> TRUE])>>]

\* GET / with a 8193-byte cookie value that is not visible ASCII
ReqOversizeOpaque ==
    [method |-> "GET",
     uri |-> <<"/">>,
     headers |-> <<Header("cookie",
                          [text |-> <<"s","i","d","=">>,
                           pad |-> 8189, str |-> FALSE])>>]

\* GET / with user-agent Nmap Scripting Engine
ReqScannerUpper ==
    [method |-> "GET",
     uri |-> <<"/">>,
     headers |-> <<Header("user-agent",
                          HeaderValue(<<"N","m","a","p"," ","S","c","r",
                                        "i","p","t","i","n","g"," ","E",
                                        "n","g","i","n","e">>))>>]

\* GET / with a user-agent naming sqlmap that is not visible ASCII
ReqScannerOpaque ==
    [method |-> "GET",
     uri |-> <<"/">>,
     headers |-> <<Header("user-agent",
                          [text |-> <<"s","q","l","m","a","p">>,
                           pad |-> 0, str |-> FALSE])>>]

\* GET / with two user-agent values, nikto and burp
ReqTwoAgents ==
    [method |-> "GET",
     uri |-> <<"/">>,
     headers |-> <<Header("user-agent",
                          HeaderValue(<<"n","i","k","t","o","/","2",".",
                                        "5">>)),
                   Header("user-agent",
                          HeaderValue(<<"b","u","r","p">>))>>]

\* GET /files?p=../../../x..%2fy: both traversal rules
ReqCombo ==
    [method |-> "GET",
     uri |-> <<"/","f","i","l","e","s","?","p","=",".",".","/",".",".","/",
               ".",".","/","x",".",".","%","2","f","y">>,
     headers |-> <<>>]

\* GET /q?s=UNION+SELECT+1 with user-agent masscan
ReqSqlScanner ==
    [method |-> "GET",
     uri |-> <<"/","q","?","s","=","U","N","I","O","N","+","S","E","L","E",
               "C","T","+","1">>,
     headers |-> <<Header("user-agent",
                          HeaderValue(<<"m","a","s","s","c","a","n","/",
                                        "1",".","3">>))>>]

ScorerRequests ==
    {ReqBenign, ReqTraversal, ReqScanner,
     ReqBackslash, ReqSingleDotDot, ReqEncoded, ReqEncodedUpper,
     ReqJsAlert, ReqOnerror, ReqOnerrorShadowed, ReqOnload,
     ReqUnionSelect, ReqUnionOnly, ReqOrTautology, ReqCmdInjection,
     ReqCmdNoApi, ReqOversize, ReqOversizeTwo, ReqAtLimit,
     ReqOversizeOpaque, ReqScannerUpper, ReqScannerOpaque, ReqTwoAgents,
     ReqCombo, ReqSqlScanner}

\* The requests of the pipeline specification
Requests == {ReqBenign, ReqTraversal}

ValidatorOutcomes ==
    {ValidatorOutcome(TRUE, U32(0)), ValidatorOutcome(TRUE, U32(30)),
     ValidatorOutcome(FALSE, U32(30))}

\* One caller (task 1) runs admissions one after another
Next ==
    \/ \E request \in Requests : Begin(1, request)
    \/ \E t \in Tasks, outcome \in LimiterOutcomes : RateLimit(t, outcome)
    \/ \E t \in Tasks, outcome \in AuthOutcomes : Authenticate(t, outcome)
    \/ \E t \in Tasks, outcome \in ValidatorOutcomes : Validate(t, outcome)
    \/ \E t \in Tasks : DetectThreats(t)
    \/ \E t \in Tasks : Monitoring(t)
    \/ \E t \in Tasks : AddRequestLog(t)

Spec == Init /\ [][Next]_vars

---------------------------------------------------------------------------
(* The scorer specification: one admission of any of ScorerRequests on a   *)
(* layer without rate limiting and authentication, so that the request     *)
(* reaches the validator and the scorer; the validator may add any of      *)
(* several scores, one of them 50 below the u32 maximum.                   *)

NearMax == [hi |-> Limb - 1, lo |-> Limb - 51]

ScorerValidatorOutcomes ==
    {ValidatorOutcome(TRUE, U32(0)), ValidatorOutcome(TRUE, U32(29)),
     ValidatorOutcome(TRUE, U32(30)), ValidatorOutcome(TRUE, NearMax),
     ValidatorOutcome(FALSE, U32(30))}

InitScorer ==
    InitWith({c \in Configs : ~c.rate_limit.enabled /\ ~c.auth.enabled
                                /\ ~c.auth.require_auth})

NextScorer ==
    \/ \E request \in ScorerRequests : nextId = 0 /\ Begin(1, request)
    \/ \E t \in Tasks, outcome \in LimiterOutcomes : RateLimit(t, outcome)
    \/ \E t \in Tasks, outcome \in AuthOutcomes : Authenticate(t, outcome)
    \/ \E t \in Tasks, outcome \in ScorerValidatorOutcomes :
          Validate(t, outcome)
    \/ \E t \in Tasks : DetectThreats(t)
    \/ \E t \in Tasks : Monitoring(t)
    \/ \E t \in Tasks : AddRequestLog(t)

SpecScorer == InitScorer /\ [][NextScorer]_vars

---------------------------------------------------------------------------
(* Vocabulary of the properties *)

\* The completed admissions the history holds
Done == {recent[i] : i \in 1..Len(recent)}

\* The admissions in progress
Running == {tasks[t] : t \in {u \in Tasks : tasks[u].pc # "idle"}}

\* The result a completed admission returned
Result(a) == Unwrap(a.ret)

\* The checkers in the order of the stages
StageOrder ==
    <<"rate_limiter", "auth_manager", "validator", "detect_threats",
      "monitor">>

StagePos(name) == CHOOSE i \in 1..Len(StageOrder) : StageOrder[i] = name

StageEnabled(name) ==
    CASE name = "rate_limiter" -> config.rate_limit.enabled
      [] name = "auth_manager" -> config.auth.enabled
      [] name = "validator" -> config.validation.enabled
      [] name = "detect_threats" -> config.threat_detection.enabled
      [] OTHER -> config.monitoring.enabled

\* The stage's checker has failed in admission a
StageFailed(a, name) ==
    CASE name = "rate_limiter" -> IsSome(a.lim) /\ ~Unwrap(a.lim).ok
      [] name = "auth_manager" ->
            /\ IsSome(a.auth)
            /\ \/ Unwrap(a.auth).kind = "invalid"
               \/ Unwrap(a.auth).kind = "none" /\ config.auth.require_auth
      [] name = "validator" -> IsSome(a.val) /\ ~Unwrap(a.val).ok
      [] name = "detect_threats" ->
            IsSome(a.scored) /\ ~Unwrap(a.scored).result.ok
      [] OTHER -> FALSE

\* The last checker the admission invoked
LastCall(a) == a.calls[Len(a.calls)]

\* The four checking stages are all disabled
AllStagesDisabled ==
    /\ ~config.rate_limit.enabled
    /\ ~config.auth.enabled
    /\ ~config.validation.enabled
    /\ ~config.threat_detection.enabled

\* The rejection counters among the sink counters an admission incremented
RejectionIncs(a) == SelectSeq(a.incs, LAMBDA c : c # "total_requests")

---------------------------------------------------------------------------
(* C1: Within one admission the checkers are invoked in the order rate     *)
(* limiter, authenticator, validator, threat scorer, monitor, each at most *)
(* once and only if its stage is enabled; a checker that fails is the last *)
(* one invoked; an admission returns an error only after a checker failed; *)
(* and the admitted record is produced only after every enabled stage ran. *)
C1_StageOrder ==
    \A a \in Done \cup Running :
        /\ \A i, j \in 1..Len(a.calls) :
              i < j => StagePos(a.calls[i]) < StagePos(a.calls[j])
        /\ \A i \in 1..Len(a.calls) :
              /\ StageEnabled(a.calls[i])
              /\ StageFailed(a, a.calls[i]) => i = Len(a.calls)
        /\ (IsSome(a.ret) /\ ~Result(a).ok) =>
              /\ a.calls # <<>>
              /\ StageFailed(a, LastCall(a))
        /\ (IsSome(a.ret) /\ Result(a).ok) =>
              a.calls = SelectSeq(StageOrder, StageEnabled)

\* C1 witness: a rate-limited admission that invoked the limiter and nothing
\* else although the later stages are enabled
C1_Witness ==
    \E a \in Done :
        /\ a.calls = <<"rate_limiter">>
        /\ ~Result(a).ok
        /\ config.auth.enabled /\ config.validation.enabled
        /\ config.threat_detection.enabled

---------------------------------------------------------------------------
\* How often counter c occurs among the counters an admission incremented
CountOf(incs, c) == Cardinality({i \in 1..Len(incs) : incs[i] = c})

\* The rejection counter that matches the stage that failed, if it has one
MatchingCounter(a) ==
    CASE LastCall(a) = "rate_limiter" -> Some("rate_limited")
      [] LastCall(a) = "auth_manager" -> Some("auth_failures")
      [] LastCall(a) = "validator" -> Some("validation_failures")
      [] OTHER -> None

RejectionCounters ==
    {"blocked_requests", "rate_limited", "auth_failures",
     "validation_failures"}

(* C2: On a layer with a sink, every rejected admission has incremented    *)
(* the counter matching its failing stage and the blocked counter by       *)
(* exactly 1 each, no other rejection counter, and has appended one        *)
(* blocked record by the time the error is returned, whichever way the     *)
(* stage failed.                                                           *)
C2_RejectionRecorded ==
    ui.attached =>
        \A a \in Done :
            ~Result(a).ok =>
                /\ \A c \in RejectionCounters :
                      CountOf(a.incs, c) =
                         IF c = "blocked_requests" \/ MatchingCounter(a) = Some(c)
                         THEN 1 ELSE 0
                /\ a.appended = 1
                /\ IsSome(a.log)
                /\ Unwrap(a.log).blocked

(* C3: On a layer with a sink, whenever no admission is in progress,       *)
(* total_requests = (admissions that returned Ok) + blocked_requests.      *)
C3_TotalIsAdmittedPlusBlocked ==
    (ui.attached /\ Running = {}) =>
        ui.total_requests = returned.ok + ui.blocked_requests

(* C4: On a layer with a sink, every completed admission has appended      *)
(* exactly one record: a non-blocked one if it returned Ok, a blocked one  *)
(* if it returned an error.                                                *)
C4_OneRecordPerAdmission ==
    ui.attached =>
        \A a \in Done :
            /\ a.appended = 1
            /\ IsSome(a.log)
            /\ Unwrap(a.log).blocked <=> ~Result(a).ok

---------------------------------------------------------------------------
\* The admissions, completed or in progress, in which the scorer has run
Scored == {a \in Done \cup Running : IsSome(a.scored)}

\* One of the scorer's category flags is set
AnyCategory(a) ==
    \/ Unwrap(a.scored).has_sql_combo
    \/ Unwrap(a.scored).has_xss
    \/ Unwrap(a.scored).has_path_traversal

\* The score the stages before the scorer left in the context
PriorScore(a) == IF IsSome(a.val) THEN Unwrap(a.val).add ELSE U32(0)

(* C6: With block_suspicious set the scorer rejects, with ThreatDetected   *)
(* of severity High, exactly when (a category flag is set and the          *)
(* cumulative threat_score is >= 40) or the cumulative threat_score is     *)
(* >= 100; otherwise, and always without block_suspicious, it returns Ok   *)
(* and the admitted context carries the score.  A request that matches     *)
(* only the scanner user-agent rule scores 70 without a category flag and  *)
(* is admitted.                                                            *)
C6_BlockDecision ==
    \A a \in Scored :
        LET sc == Unwrap(a.scored)
            score == a.context.threat_score
        IN  /\ ~sc.result.ok <=>
                  /\ config.threat_detection.block_suspicious
                  /\ \/ AnyCategory(a) /\ (score.hi > 0 \/ score.lo >= 40)
                     \/ score.hi > 0 \/ score.lo >= 100
            /\ ~sc.result.ok =>
                  /\ sc.result.error.type = "ThreatDetected"
                  /\ sc.result.error.severity = "High"
            /\ IsSome(a.ret) =>
                  IF sc.result.ok
                  THEN /\ Result(a).ok
                       /\ Result(a).value.threat_score = score
                  ELSE /\ ~Result(a).ok
                       /\ Result(a).error.type = "ThreatDetected"
                       /\ Result(a).error.severity = "High"
            /\ (a.request = ReqScanner /\ PriorScore(a) = U32(0)) =>
                  /\ score = U32(70)
                  /\ ~AnyCategory(a)
                  /\ sc.result.ok

\* C6 witness: with block_suspicious set, the traversal request is rejected
\* at a cumulative score of exactly 40 with the path-traversal flag set
C6_Witness ==
    \E a \in Done :
        /\ IsSome(a.scored)
        /\ config.threat_detection.block_suspicious
        /\ a.request = ReqTraversal
        /\ Unwrap(a.scored).has_path_traversal
        /\ a.context.threat_score = U32(40)
        /\ Result(a) = Err(ThreatDetected("Suspicious request pattern",
                                          "High"))

---------------------------------------------------------------------------
(* The scoring table of the specification, stated on its own: the text the *)
(* table searches for and what each row adds.                              *)

Has(s, text) ==
    \E i \in 1..Len(s) :
        /\ i + Len(text) - 1 <= Len(s)
        /\ \A k \in 1..Len(text) : s[i + k - 1] = text[k]

\* The sum of the scores of the URI rows whose condition holds for uri
UriRowsScore(uri) ==
    LET low == [i \in 1..Len(uri) |-> LowerChar(uri[i])]
        row(cond, score) == IF cond THEN score ELSE 0
    IN    row(\/ Has(uri, <<".",".","/",".",".","/",".",".","/">>)
              \/ Has(uri, <<".",".","\\",".",".","\\",".",".","\\">>), 40)
        + row(\/ Has(uri, <<".",".","%","2","f">>)
              \/ Has(uri, <<".",".","%","5","c">>), 50)
        + row(\/ Has(low, <<"<","s","c","r","i","p","t">>)
              \/ Has(low, <<"j","a","v","a","s","c","r","i","p","t",":",
                            "a","l","e","r","t">>), 60)
        + row(\/ /\ Has(low, <<"o","n","e","r","r","o","r","=">>)
                 /\ ~Has(low, <<"o","n","e","r","r","o","r","_">>)
              \/ /\ Has(low, <<"o","n","l","o","a","d","=">>)
                 /\ ~Has(low, <<"o","n","l","o","a","d","_">>), 50)
        + row(/\ Has(low, <<"u","n","i","o","n">>)
              /\ Has(low, <<"s","e","l","e","c","t">>), 60)
        + row(\/ Has(low, <<"'",";"," ","d","r","o","p">>)
              \/ Has(low, <<"'",";"," ","d","e","l","e","t","e">>), 60)
        + row(\/ Has(low, <<"'"," ","o","r"," ","'","1","'","=","'","1">>)
              \/ Has(low, <<"1","'","o","r","'","1","'","=","'","1">>), 60)
        + row(/\ Has(uri, <<Backtick,";">>) \/ Has(uri, <<Backtick,"|">>)
              /\ Has(uri, <<"/","a","p","i","/">>), 50)

\* The header entries whose value is over 8192 bytes long
OversizeEntries(headers) ==
    {i \in 1..Len(headers) :
        Len(headers[i].value.text) + headers[i].value.pad > 8192}

\* The user-agent entries whose lower-cased value names a scanning tool
ScannerEntries(headers) ==
    {i \in 1..Len(headers) :
        /\ headers[i].name = "user-agent"
        /\ LET low == [k \in 1..Len(headers[i].value.text) |->
                          LowerChar(headers[i].value.text[k])]
           IN  \E tool \in {<<"s","q","l","m","a","p">>,
                            <<"n","i","k","t","o">>, <<"n","m","a","p">>,
                            <<"m","a","s","s","c","a","n">>,
                            <<"b","u","r","p">>} : Has(low, tool)}

\* The entries whose value is text (visible ASCII)
TextEntries(headers) == {i \in 1..Len(headers) : headers[i].value.str}

\* The table's sum with every row counted at most once
TableScoreOnce(request) ==
      UriRowsScore(request.uri)
    + (IF OversizeEntries(request.headers) # {} THEN 30 ELSE 0)
    + (IF ScannerEntries(request.headers) # {} THEN 70 ELSE 0)

\* The table's sum with the two header rows counted for each text value
TableScorePerValue(request) ==
      UriRowsScore(request.uri)
    + 30 * Cardinality(OversizeEntries(request.headers)
                       \cap TextEntries(request.headers))
    + 70 * Cardinality(ScannerEntries(request.headers)
                       \cap TextEntries(request.headers))

\* min(prior + n, 2^32 - 1) for a u32 prior and a natural n < 65536
PlusSaturating(prior, n) ==
    IF prior.lo + n < Limb
    THEN [hi |-> prior.hi, lo |-> prior.lo + n]
    ELSE IF prior.hi = Limb - 1
         THEN [hi |-> Limb - 1, lo |-> Limb - 1]
         ELSE [hi |-> prior.hi + 1, lo |-> prior.lo + n - Limb]

(* C7 as stated: for every request, the threat_score of the record emitted *)
(* for it equals the sum of the scores of the table rows whose condition   *)
(* holds for the request, each row counted once, saturating at the u32     *)
(* maximum.                                                                *)
C7_RecordScoreIsTableSum ==
    \A a \in Done :
        a.appended = 1 =>
            Unwrap(a.log).threat_score = [f64 |-> U32(TableScoreOnce(a.request))]

(* C7 amended: the record of an admission in which the scorer ran carries  *)
(* the score the earlier stages left in the context plus the sum of the    *)
(* scores of the rows whose condition holds, each URI row once, the        *)
(* oversize row for each text header value over 8192 bytes and the scanner *)
(* row for each text user-agent value naming a scanner, saturating at the  *)
(* u32 maximum; the record of an admission in which the scorer did not run *)
(* carries the score the earlier stages left, and 0 when the admission was *)
(* rejected by the rate limiter or for missing credentials.                *)
C7_RecordScoreIsAccumulated ==
    \A a \in Done :
        a.appended = 1 =>
            Unwrap(a.log).threat_score =
               [f64 |->
                  IF IsSome(a.scored)
                  THEN PlusSaturating(PriorScore(a),
                                      TableScorePerValue(a.request))
                  ELSE IF ~Result(a).ok
                          /\ LastCall(a) \in {"rate_limiter", "auth_manager"}
                       THEN U32(0)
                       ELSE PriorScore(a)]

\* C7 witness: the validator left a score 50 below the maximum, the scorer
\* added the union-select row, and the record carries the saturated score
C7_Witness ==
    \E a \in Done :
        /\ a.appended = 1
        /\ IsSome(a.scored)
        /\ a.request = ReqUnionSelect
        /\ PriorScore(a) = NearMax
        /\ Unwrap(a.log).threat_score = [f64 |-> U32Max]

---------------------------------------------------------------------------
\* The rate limiter rejected admission a
RateLimited(a) == IsSome(a.lim) /\ ~Unwrap(a.lim).ok

(* C8: When the limiter rejects two successive admissions of one client,   *)
(* both return RateLimitExceeded with retry_after = 60, the limiter's      *)
(* check was invoked once in each (and nothing else was), the limiter has  *)
(* seen both, and on a layer with a sink each admission has incremented    *)
(* rate_limited and blocked_requests by one and logged status 429.         *)
C8_RepeatedRateLimit ==
    \A i \in 1..(Len(recent) - 1) :
        (/\ recent[i].client_ip = recent[i + 1].client_ip
         /\ RateLimited(recent[i])
         /\ RateLimited(recent[i + 1])) =>
            /\ \A a \in {recent[i], recent[i + 1]} :
                  /\ Result(a) = Err(RateLimitExceeded(60))
                  /\ a.calls = <<"rate_limiter">>
                  /\ ui.attached =>
                        /\ CountOf(a.incs, "rate_limited") = 1
                        /\ CountOf(a.incs, "blocked_requests") = 1
                        /\ a.appended = 1
                        /\ Unwrap(a.log).status_code = 429
            /\ limiter[recent[i].client_ip] >= 2
            /\ ui.attached => ui.rate_limited >= 2 /\ ui.blocked_requests >= 2

\* C8 witness: two successive admissions of one client, both rejected by the
\* limiter, on a layer with a sink
C8_Witness ==
    /\ ui.attached
    /\ Len(recent) >= 2
    /\ recent[1].client_ip = recent[2].client_ip
    /\ RateLimited(recent[1])
    /\ RateLimited(recent[2])
    /\ ui.rate_limited = 2

(* C9: When the rate-limit stage rejects, the returned error is            *)
(* RateLimitExceeded whose retry_after is the limiter's own hint when its  *)
(* rejection carries one, and 60 otherwise.                                *)
C9_RetryAfterHint ==
    \A a \in Done :
        RateLimited(a) =>
            Result(a) =
               Err(RateLimitExceeded(IF IsSome(Unwrap(a.lim).hint)
                                     THEN Unwrap(Unwrap(a.lim).hint)
                                     ELSE 60))

(* C10: With authentication enabled, an admission whose authenticator      *)
(* reports invalid credentials is rejected with AuthenticationFailed       *)
(* whether or not require_auth is set, and one whose authenticator finds   *)
(* no credentials is rejected with AuthenticationFailed when require_auth  *)
(* is set; in both cases the validator and the scorer are not run.         *)
C10_AuthRejections ==
    \A a \in Done :
        (/\ IsSome(a.auth)
         /\ \/ Unwrap(a.auth).kind = "invalid"
            \/ Unwrap(a.auth).kind = "none" /\ config.auth.require_auth) =>
            /\ ~Result(a).ok
            /\ Result(a).error.type = "AuthenticationFailed"
            /\ a.val = None
            /\ a.scored = None
            /\ LastCall(a) = "auth_manager"

\* C10 witness: with require_auth unset and the later stages enabled, an
\* admission with invalid credentials has been rejected
C10_Witness ==
    \E a \in Done :
        /\ ~config.auth.require_auth
        /\ config.validation.enabled
        /\ config.threat_detection.enabled
        /\ IsSome(a.auth)
        /\ Unwrap(a.auth).kind = "invalid"
        /\ ~Result(a).ok

---------------------------------------------------------------------------
\* The authenticator found no credentials in admission a
Anonymous(a) == IsSome(a.auth) /\ Unwrap(a.auth).kind = "none"

\* The stages after authentication that ran in admission a have all passed
LaterStagesPassed(a) ==
    /\ IsSome(a.val) => Unwrap(a.val).ok
    /\ IsSome(a.scored) => Unwrap(a.scored).result.ok

(* C11: With authentication enabled and require_auth unset, an admission   *)
(* for which the authenticator finds no credentials passes stage 2: the    *)
(* enabled later stages are run, and when they pass the admission returns  *)
(* Ok with a context whose user_id is None, authenticated is false and     *)
(* roles is empty.                                                         *)
C11_AnonymousPasses ==
    \A a \in Done :
        (Anonymous(a) /\ ~config.auth.require_auth) =>
            /\ config.validation.enabled => IsSome(a.val)
            /\ (config.threat_detection.enabled /\ LaterStagesPassed(a)) =>
                  IsSome(a.scored)
            /\ Result(a).ok <=> LaterStagesPassed(a)
            /\ Result(a).ok =>
                  /\ Result(a).value.user_id = None
                  /\ Result(a).value.authenticated = FALSE
                  /\ Result(a).value.roles = <<>>

\* C11 witness: an anonymous request was admitted after validation and
\* threat detection ran, on a layer that does not require authentication
C11_Witness ==
    \E a \in Done :
        /\ Anonymous(a)
        /\ ~config.auth.require_auth
        /\ IsSome(a.val)
        /\ IsSome(a.scored)
        /\ Result(a).ok
        /\ Result(a).value.user_id = None

---------------------------------------------------------------------------
\* authenticated <=> user_id present, and no roles when unauthenticated
ContextConsistent(ctx) ==
    /\ ctx.authenticated <=> IsSome(ctx.user_id)
    /\ ~ctx.authenticated => ctx.roles = <<>>

\* The authenticator yielded a principal in admission a
HasPrincipal(a) == IsSome(a.auth) /\ Unwrap(a.auth).kind = "principal"

(* C12: The context of every admission, in progress or completed, has      *)
(* authenticated true exactly when user_id is present and has no roles     *)
(* when it is unauthenticated; the context an admission returns after the  *)
(* authenticator yielded a principal carries that principal's user_id and  *)
(* roles and is authenticated, and without a principal it is the           *)
(* unauthenticated context of SecurityContext::new.                        *)
C12_ContextConsistent ==
    /\ \A a \in Running : ContextConsistent(a.context)
    /\ \A a \in Done :
          /\ ContextConsistent(a.context)
          /\ Result(a).ok =>
                /\ ContextConsistent(Result(a).value)
                /\ IF HasPrincipal(a)
                   THEN /\ Result(a).value.user_id =
                              Some(Unwrap(a.auth).user_id)
                        /\ Result(a).value.roles = Unwrap(a.auth).roles
                        /\ Result(a).value.authenticated
                   ELSE /\ Result(a).value.user_id = None
                        /\ ~Result(a).value.authenticated

\* C12 witness: an admission with a principal that has roles was admitted
C12_Witness ==
    \E a \in Done :
        /\ HasPrincipal(a)
        /\ Result(a).ok
        /\ Result(a).value.authenticated
        /\ Result(a).value.roles # <<>>

---------------------------------------------------------------------------
\* a <= b on u32
U32Leq(a, b) == a.hi < b.hi \/ (a.hi = b.hi /\ a.lo <= b.lo)

\* The context's score where admission a stands: 0 before the validator
\* ran, min(0 + add, 2^32 - 1) after the validator added add, and that plus
\* the scores of the matching rows, cut at 2^32 - 1, after the scorer ran
ExpectedScore(a) ==
    IF IsSome(a.scored)
    THEN PlusSaturating(PriorScore(a), TableScorePerValue(a.request))
    ELSE PriorScore(a)

\* Task t is in the same admission before and after the step
SameAdmission(t) ==
    /\ tasks[t].pc # "idle"
    /\ tasks'[t].pc # "idle"
    /\ tasks'[t].request_id = tasks[t].request_id

\* Task t returns in the step
Returns(t) == tasks[t].pc # "idle" /\ tasks'[t].pc = "idle"

(* C13: The context's threat_score is 0 when the admission begins, no step *)
(* of an admission decreases it, up to and including the context handed    *)
(* back at the return, and each addition leaves min(old + s, 2^32 - 1): a  *)
(* sum beyond the u32 maximum stays at the maximum.                        *)
C13_ScoreMonotone ==
    /\ [](\A a \in Running \cup Done :
             a.context.threat_score = ExpectedScore(a))
    /\ [][\A t \in Tasks :
             /\ SameAdmission(t) =>
                   U32Leq(tasks[t].context.threat_score,
                          tasks'[t].context.threat_score)
             /\ Returns(t) =>
                   U32Leq(tasks[t].context.threat_score,
                          recent'[Len(recent')].context.threat_score)]_vars

\* C13 witness: a score 50 below the maximum met a row worth 60 and stayed
\* at the maximum
C13_Witness ==
    \E a \in Running \cup Done :
        /\ PriorScore(a) = NearMax
        /\ IsSome(a.scored)
        /\ TableScorePerValue(a.request) = 60
        /\ a.context.threat_score = U32Max

---------------------------------------------------------------------------
(* The transport specification: a binding receives any result of the type  *)
(* SecurityResult<SecurityContext>, every variant of SecurityError among   *)
(* them, and answers it.                                                   *)

Messages == {"denied"}

\* Every variant of SecurityError, lines 13-48
SecurityErrors ==
    {RateLimitExceeded(r) : r \in {30, 60}}
    \cup {HttpsRequired}
    \cup {InvalidInput(m, f) : m \in Messages, f \in {None, Some("body")}}
    \cup {ThreatDetected(m, sev) :
             m \in Messages, sev \in {"Low", "Medium", "High", "Critical"}}
    \cup UNION {{AuthenticationFailed(m), AuthorizationFailed(m),
                 ConfigError(m), InternalError(m), CorsViolation(m),
                 CsrfViolation(m), TransportLayerViolation(m), IpBlocked(m),
                 VpnDetected(m), ProxyDetected(m), RequestTimeout(m),
                 ConnectionTimeout(m), ReplayDetected(m)} : m \in Messages}

Results ==
    {Ok(ContextNew(1, StrUnknown))} \cup {Err(e) : e \in SecurityErrors}

\* The bindings answer result
Respond(result) ==
    /\ response = None
    /\ response' = Responses(result)
    /\ UNCHANGED <<config, ui, limiter, monitor, tasks, nextId, recent,
                   returned>>

InitTransport == Init

NextTransport == \E result \in Results : Respond(result)

SpecTransport == InitTransport /\ [][NextTransport]_vars

\* The status code the error taxonomy gives an error
TaxonomyStatus(error) ==
    CASE error.type = "RateLimitExceeded" -> 429
      [] error.type = "AuthenticationFailed" -> 401
      [] error.type = "AuthorizationFailed" -> 403
      [] error.type = "InvalidInput" -> 400
      [] error.type = "ThreatDetected" -> 403
      [] error.type \in {"CorsViolation", "CsrfViolation"} -> 403
      [] error.type = "HttpsRequired" -> 403
      [] OTHER -> 500

(* C14: Every error a binding receives from an admission is answered with  *)
(* the status of the taxonomy (429 rate limit, 401 authentication, 403     *)
(* authorization, 400 invalid input, 403 threat, 403 CORS and CSRF, 403    *)
(* HTTPS required, 500 anything else), by the FFI bridge and by the axum   *)
(* middleware alike, and the blocked record of an admission carries the    *)
(* status its returned error maps to.                                      *)
C14_StatusMapping ==
    /\ (IsSome(response) /\ ~Unwrap(response).result.ok) =>
          LET r == Unwrap(response)
          IN  /\ r.ffi = TaxonomyStatus(r.result.error)
              /\ r.axum = TaxonomyStatus(r.result.error)
    /\ \A a \in Done :
          (a.appended = 1 /\ ~Result(a).ok) =>
              Unwrap(a.log).status_code = TaxonomyStatus(Result(a).error)

---------------------------------------------------------------------------
\* The error the rate limiter's rejection carries: RateLimitExceeded with
\* the limiter's retry hint, 60 when it has none
LimiterError(outcome) ==
    RateLimitExceeded(IF IsSome(outcome.hint) THEN Unwrap(outcome.hint)
                                              ELSE 60)

(* C15: The error a failing checker produces is what the caller of          *)
(* process_request receives, variant and payload: the rate limiter's, the  *)
(* authenticator's, the validator's (reason and field) and the scorer's;   *)
(* and no checker is invoked twice in one admission.                       *)
C15_ErrorsVerbatim ==
    \A a \in Done :
        /\ RateLimited(a) => Result(a) = Err(LimiterError(Unwrap(a.lim)))
        /\ (IsSome(a.auth) /\ Unwrap(a.auth).kind = "invalid") =>
              Result(a) = Err(Unwrap(a.auth).error)
        /\ (IsSome(a.val) /\ ~Unwrap(a.val).ok) =>
              Result(a) = Err(Unwrap(a.val).error)
        /\ (IsSome(a.scored) /\ ~Unwrap(a.scored).result.ok) =>
              Result(a) = Unwrap(a.scored).result
        /\ \A i, j \in 1..Len(a.calls) : a.calls[i] = a.calls[j] => i = j

---------------------------------------------------------------------------
(* The cancellation specification.  process_request is an async fn: its    *)
(* caller cancels an admission by dropping the future while it is          *)
(* suspended at one of its await points, after which none of its code runs *)
(* again.  The function installs no drop guard and polls no cancellation   *)
(* signal.                                                                 *)

\* The task is suspended at an await: in the enabled checker's call of the
\* stage it has reached (detect_threats never suspends: it awaits nothing),
\* or in add_request_log
Suspended(tk) ==
    \/ tk.pc = "rate" /\ config.rate_limit.enabled
    \/ tk.pc = "auth" /\ config.auth.enabled
    \/ tk.pc = "validate" /\ config.validation.enabled
    \/ tk.pc = "monitor" /\ config.monitoring.enabled
    \/ tk.pc = "log"

\* The caller drops the future of task t
Cancel(t) ==
    /\ Suspended(tasks[t])
    /\ tasks' = [tasks EXCEPT ![t].pc = "cancelled"]
    /\ UNCHANGED <<config, ui, limiter, monitor, nextId, recent, returned,
                   response>>

NextCancel ==
    \/ \E request \in Requests : Begin(1, request)
    \/ \E t \in Tasks, outcome \in LimiterOutcomes : RateLimit(t, outcome)
    \/ \E t \in Tasks, outcome \in AuthOutcomes : Authenticate(t, outcome)
    \/ \E t \in Tasks, outcome \in ValidatorOutcomes : Validate(t, outcome)
    \/ \E t \in Tasks : DetectThreats(t)
    \/ \E t \in Tasks : Monitoring(t)
    \/ \E t \in Tasks : AddRequestLog(t)
    \/ \E t \in Tasks : Cancel(t)

SpecCancel == Init /\ [][NextCancel]_vars

\* The admissions cancelled while suspended
Cancelled == {tasks[t] : t \in {u \in Tasks : tasks[u].pc = "cancelled"}}

\* The records of the sink log
Records == {ui.request_logs[i] : i \in 1..Len(ui.request_logs)}

\* The terminal record of a cancelled admission
IsCancelRecord(log, a) ==
    /\ log.id = a.request_id
    /\ log.blocked
    /\ log.reason = Some("cancelled")
    /\ log.status_code = 499

(* C16: An admission cancelled while suspended at a stage runs no further  *)
(* stage and keeps the side effects already applied (its total_requests    *)
(* increment among them), and the sink holds one terminal record for it    *)
(* with blocked = true, reason "cancelled" and status 499; an admission    *)
(* that has returned has no such record.                                   *)
C16_CancelRecorded ==
    /\ \A a \in Cancelled :
          ui.attached =>
              /\ ui.total_requests >= 1
              /\ Cardinality({log \in Records : IsCancelRecord(log, a)}) = 1
    /\ \A a \in Done : \A log \in Records : ~IsCancelRecord(log, a)

---------------------------------------------------------------------------
\* The admissions, completed or in progress, in which the scorer has run
ScoredAdmissions == {a \in Done \cup Running : IsSome(a.scored)}

---------------------------------------------------------------------------
(* The client specification: one admission of a request with any of        *)
(* several combinations of forwarding headers, under every configuration.  *)

\* A header value that is not visible ASCII: to_str() fails on it
OpaqueValue(text) == [text |-> text, pad |-> 0, str |-> FALSE]

Ip1 == <<"1","0",".","0",".","0",".","1">>

Ip2 == <<"1","0",".","0",".","0",".","2">>

Ip9 == <<"1","0",".","0",".","0",".","9">>

\* GET / with the given headers
ReqWith(headers) == [method |-> "GET", uri |-> <<"/">>, headers |-> headers]

\* x-forwarded-for "10.0.0.1, 10.0.0.9" and x-real-ip 10.0.0.2
ReqForwardedList ==
    ReqWith(<<Header("x-real-ip", HeaderValue(Ip2)),
              Header("x-forwarded-for",
                     HeaderValue(Ip1 \o <<",", " ">> \o Ip9))>>)

\* two x-forwarded-for headers
ReqForwardedTwice ==
    ReqWith(<<Header("x-forwarded-for", HeaderValue(Ip9)),
              Header("x-forwarded-for", HeaderValue(Ip1))>>)

\* an empty x-forwarded-for and x-real-ip 10.0.0.2
ReqForwardedEmpty ==
    ReqWith(<<Header("x-forwarded-for", HeaderValue(<<>>)),
              Header("x-real-ip", HeaderValue(Ip2))>>)

\* x-forwarded-for ",10.0.0.1": the first entry is empty
ReqForwardedLeadingComma ==
    ReqWith(<<Header("x-forwarded-for", HeaderValue(<<",">> \o Ip1))>>)

\* x-forwarded-for with a byte above 0x7f, and x-real-ip 10.0.0.2
ReqForwardedOpaque ==
    ReqWith(<<Header("x-forwarded-for",
                     OpaqueValue(<<"0xE9">> \o Ip1 \o <<",">> \o Ip9)),
              Header("x-real-ip", HeaderValue(Ip2))>>)

\* x-forwarded-for with a byte above 0x7f and no x-real-ip
ReqForwardedOpaqueOnly ==
    ReqWith(<<Header("x-forwarded-for", OpaqueValue(<<"0xE9">> \o Ip1))>>)

\* x-real-ip with a byte above 0x7f
ReqRealOpaque ==
    ReqWith(<<Header("x-real-ip", OpaqueValue(<<"0xE9">> \o Ip2))>>)

ClientRequests ==
    {ReqBenign, ReqTraversal, ReqScanner, ReqForwardedList,
     ReqForwardedTwice, ReqForwardedEmpty, ReqForwardedLeadingComma,
     ReqForwardedOpaque, ReqForwardedOpaqueOnly, ReqRealOpaque}

NextClient ==
    \/ \E request \in ClientRequests : nextId = 0 /\ Begin(1, request)
    \/ \E t \in Tasks, outcome \in LimiterOutcomes : RateLimit(t, outcome)
    \/ \E t \in Tasks, outcome \in AuthOutcomes : Authenticate(t, outcome)
    \/ \E t \in Tasks, outcome \in ValidatorOutcomes : Validate(t, outcome)
    \/ \E t \in Tasks : DetectThreats(t)
    \/ \E t \in Tasks : Monitoring(t)
    \/ \E t \in Tasks : AddRequestLog(t)

SpecClient == Init /\ [][NextClient]_vars

\* The bytes of the first header of the name, text or not
HeaderBytes(headers, name) ==
    LET v == Unwrap(HeaderGet(headers, name))
    IN  v.text \o [i \in 1..v.pad |-> "x"]

\* The client identifier by presence alone: the first comma-separated entry
\* of x-forwarded-for when the header is present, else x-real-ip when it is
\* present, else "unknown"
ClientByPresence(request) ==
    IF IsSome(HeaderGet(request.headers, "x-forwarded-for"))
    THEN SplitFirst(HeaderBytes(request.headers, "x-forwarded-for"), ",")
    ELSE IF IsSome(HeaderGet(request.headers, "x-real-ip"))
         THEN HeaderBytes(request.headers, "x-real-ip")
         ELSE StrUnknown

\* The header of the name is present and its first value is text
TextHeader(request, name) ==
    /\ IsSome(HeaderGet(request.headers, name))
    /\ Unwrap(HeaderGet(request.headers, name)).str

\* The client identifier with a header counting only when it is text
ClientByText(request) ==
    IF TextHeader(request, "x-forwarded-for")
    THEN SplitFirst(HeaderBytes(request.headers, "x-forwarded-for"), ",")
    ELSE IF TextHeader(request, "x-real-ip")
         THEN HeaderBytes(request.headers, "x-real-ip")
         ELSE StrUnknown

\* Admission a uses client everywhere: in its context, as the key of the
\* limiter's check, and in its record
ClientUsed(a, client) ==
    /\ a.client_ip = client
    /\ a.context.client_ip = client
    /\ IsSome(a.lim) => (client \in DOMAIN limiter /\ limiter[client] >= 1)
    /\ IsSome(a.log) => Unwrap(a.log).client_ip = client
    /\ (IsSome(a.ret) /\ Result(a).ok) => Result(a).value.client_ip = client

---------------------------------------------------------------------------
\* The status code of a rejection by the stage of the named checker
StageStatus(name) ==
    CASE name = "rate_limiter" -> 429
      [] name = "auth_manager" -> 401
      [] name = "validator" -> 400
      [] name = "detect_threats" -> 403

\* The completed admissions that appended a record
Recorded == {a \in Done : a.appended = 1}

---------------------------------------------------------------------------
(* C20: The monitoring.enabled option controls sink emission: on a layer   *)
(* with a sink attached, a completed admission has appended no record when *)
(* the option is unset and has appended its record when it is set.         *)
C20_MonitoringControlsSink ==
    ui.attached =>
        \A a \in Done :
            IF config.monitoring.enabled THEN a.appended = 1
                                         ELSE a.appended = 0

---------------------------------------------------------------------------
\* Task t runs the threat scorer in the step
ScorerStep(t) ==
    /\ tasks[t].pc = "threats"
    /\ tasks'[t].pc # "threats"
    /\ config.threat_detection.enabled

\* The admission of task t as the step leaves it: still in the task, or,
\* when the step returned, the newest entry of the history
After(t) ==
    IF tasks'[t].pc = "idle" THEN recent'[Len(recent')] ELSE tasks'[t]

\* The sink's counters other than blocked_requests
OtherCounters(u) ==
    <<u.total_requests, u.rate_limited, u.auth_failures,
      u.validation_failures>>

(* C21: A step in which the threat scorer runs leaves the context's        *)
(* request_id, client_ip, user_id, authenticated, roles and metadata as    *)
(* they were, whether the scorer returns Ok or ThreatDetected, and leaves  *)
(* the rate limiter's state, the sink log and the sink counters as they    *)
(* were; the one sink change of such a step is the orchestrator's own      *)
(* blocked_requests increment that follows a ThreatDetected result.        *)
C21_ScorerFrame ==
    [][\A t \in Tasks :
          ScorerStep(t) =>
              /\ [After(t).context EXCEPT
                      !.threat_score = tasks[t].context.threat_score]
                    = tasks[t].context
              /\ limiter' = limiter
              /\ ui'.request_logs = ui.request_logs
              /\ ui'.attached = ui.attached
              /\ OtherCounters(ui') = OtherCounters(ui)
              /\ ui'.blocked_requests =
                    IF ui.attached /\ ~Unwrap(After(t).scored).result.ok
                    THEN ui.blocked_requests + 1
                    ELSE ui.blocked_requests]_vars

\* C21 witness: the scorer has rejected the request of an authenticated
\* principal with roles, on a layer whose limiter and sink hold state
C21_Witness ==
    \E a \in Done \cup Running :
        /\ IsSome(a.scored)
        /\ ~Unwrap(a.scored).result.ok
        /\ a.context.user_id = Some("alice")
        /\ a.context.roles # <<>>
        /\ a.context.threat_score # U32(0)
        /\ a.client_ip \in DOMAIN limiter
        /\ ui.blocked_requests >= 1

---------------------------------------------------------------------------
(* The panic specification.  process_request calls each checker directly   *)
(* and awaits it; nothing in it or in its callers catches an unwinding     *)
(* panic.  A panic inside a checker therefore unwinds through              *)
(* process_request into the caller's task, and in a build with             *)
(* panic = "abort" it ends the process.  After an unwinding panic the      *)
(* caller may start its next admission on the same layer.                  *)

\* The task is inside the call of an enabled external checker
InChecker(tk) ==
    \/ tk.pc = "rate" /\ config.rate_limit.enabled
    \/ tk.pc = "auth" /\ config.auth.enabled
    \/ tk.pc = "validate" /\ config.validation.enabled

\* The checker task t is calling panics; build is the panic strategy
Panic(t, build) ==
    /\ InChecker(tasks[t])
    /\ tasks' =
          IF build = "unwind"
          THEN [tasks EXCEPT ![t].pc = "panicked"]
          ELSE [u \in Tasks |->
                  IF tasks[u].pc = "idle" THEN [pc |-> "aborted"]
                  ELSE [tasks[u] EXCEPT !.pc = "aborted"]]
    /\ UNCHANGED <<config, ui, limiter, monitor, nextId, recent, returned,
                   response>>

\* The caller's next admission runs in the first task whose predecessors
\* have all unwound
MayBegin(t) == \A u \in 1..(t - 1) : tasks[u].pc = "panicked"

NextPanic ==
    \/ \E t \in Tasks, request \in Requests :
          MayBegin(t) /\ Begin(t, request)
    \/ \E t \in Tasks, outcome \in LimiterOutcomes : RateLimit(t, outcome)
    \/ \E t \in Tasks, outcome \in AuthOutcomes : Authenticate(t, outcome)
    \/ \E t \in Tasks, outcome \in ValidatorOutcomes : Validate(t, outcome)
    \/ \E t \in Tasks : DetectThreats(t)
    \/ \E t \in Tasks : Monitoring(t)
    \/ \E t \in Tasks : AddRequestLog(t)
    \/ \E t \in Tasks, build \in {"unwind", "abort"} : Panic(t, build)

SpecPanic == Init /\ [][NextPanic]_vars

\* The admissions in which a checker has panicked
Panicked ==
    {tasks[t] : t \in {u \in Tasks : /\ tasks[u].pc \in {"panicked", "aborted"}
                                      /\ "request_id" \in DOMAIN tasks[u]}}

(* C22: An admission in which a checker panicked has returned              *)
(* Err(InternalError), which the transport maps to status 500, and the     *)
(* layer goes on serving: no task has been stopped by the panic.           *)
C22_PanicCaught ==
    /\ \A a \in Panicked :
          /\ IsSome(a.ret)
          /\ ~Result(a).ok
          /\ Result(a).error.type = "InternalError"
          /\ ffi_status_code(Result(a)) = 500
    /\ \A t \in Tasks : tasks[t].pc # "aborted"

---------------------------------------------------------------------------
\* Threat detection and block_suspicious are both enabled
Blocking ==
    /\ config.threat_detection.enabled
    /\ config.threat_detection.block_suspicious

(* C23: With threat detection and block_suspicious both enabled, every     *)
(* context process_request returns Ok has a threat_score below 100, comes  *)
(* from a scoring in which no category rule matched, and is not high risk  *)
(* (threat_score > 100); and a scoring that ends at exactly 100 is         *)
(* rejected although is_high_risk is false for that context.               *)
C23_AdmittedBelowThreshold ==
    Blocking =>
        /\ \A a \in Done :
              Result(a).ok =>
                  /\ IsSome(a.scored)
                  /\ ~AnyCategory(a)
                  /\ Result(a).value.threat_score.hi = 0
                  /\ Result(a).value.threat_score.lo < 100
                  /\ ~is_high_risk(Result(a).value)
        /\ \A a \in Scored :
              a.context.threat_score = U32(100) =>
                  /\ ~Unwrap(a.scored).result.ok
                  /\ ~is_high_risk(a.context)
                  /\ IsSome(a.ret) => ~Result(a).ok

\* C23 witness: a request that matched no category rule reached exactly 100
\* and was rejected
C23_Witness ==
    /\ Blocking
    /\ \E a \in Done :
          /\ IsSome(a.scored)
          /\ ~AnyCategory(a)
          /\ a.context.threat_score = U32(100)
          /\ ~is_high_risk(a.context)
          /\ ~Result(a).ok

---------------------------------------------------------------------------
(* The concurrent specification: every task may start an admission while   *)
(* others are in progress on the one shared layer, and the steps of the    *)
(* admissions interleave at the await points.  The layer has a sink and    *)
(* every checking stage enabled, so that each rejection path can be taken, *)
(* and each checker either passes or rejects.                              *)

InitConcurrent ==
    /\ InitWith({c \in Configs : /\ c.rate_limit.enabled
                                  /\ c.auth.enabled
                                  /\ c.validation.enabled
                                  /\ c.threat_detection.enabled
                                  /\ ~c.monitoring.enabled})
    /\ ui.attached

ConcurrentLimiterOutcomes == {o \in LimiterOutcomes : o.hint = None}

ConcurrentValidatorOutcomes ==
    {ValidatorOutcome(TRUE, U32(0)), ValidatorOutcome(FALSE, U32(30))}

NextConcurrent ==
    \/ \E t \in Tasks : Begin(t, ReqTraversal)
    \/ \E t \in Tasks, outcome \in ConcurrentLimiterOutcomes :
          RateLimit(t, outcome)
    \/ \E t \in Tasks, outcome \in AuthOutcomes : Authenticate(t, outcome)
    \/ \E t \in Tasks, outcome \in ConcurrentValidatorOutcomes :
          Validate(t, outcome)
    \/ \E t \in Tasks : DetectThreats(t)
    \/ \E t \in Tasks : Monitoring(t)
    \/ \E t \in Tasks : AddRequestLog(t)

SpecConcurrent == InitConcurrent /\ [][NextConcurrent]_vars

\* The admissions started so far, completed or in progress
Started == Done \cup Running

\* The admissions that have taken the recording rejection path of a stage
TookRateLimitPath == {a \in Started : RateLimited(a)}

TookAuthPath ==
    {a \in Started : Anonymous(a) /\ config.auth.require_auth}

TookValidationPath == {a \in Started : IsSome(a.val) /\ ~Unwrap(a.val).ok}

TookThreatPath ==
    {a \in Started : IsSome(a.scored) /\ ~Unwrap(a.scored).result.ok}

(* C24: On a shared layer with a sink, whatever the interleaving of the    *)
(* admissions, no counter update is lost: total_requests is the number of  *)
(* admissions started, rate_limited, auth_failures and validation_failures *)
(* are the numbers of admissions that took the recording rejection path of *)
(* their stage, and blocked_requests is the number that took any recording *)
(* rejection path; in particular once all admissions have completed.       *)
C24_NoLostUpdate ==
    ui.attached =>
        /\ Cardinality(Started) = nextId
        /\ ui.total_requests = nextId
        /\ ui.rate_limited = Cardinality(TookRateLimitPath)
        /\ ui.auth_failures = Cardinality(TookAuthPath)
        /\ ui.validation_failures = Cardinality(TookValidationPath)
        /\ ui.blocked_requests =
              Cardinality(TookRateLimitPath \cup TookAuthPath
                            \cup TookValidationPath \cup TookThreatPath)

\* C24 witness: two admissions were in progress at once, each in a
\* different rejection path, and both have completed
C24_Witness ==
    /\ ui.attached
    /\ Len(recent) = 2
    /\ Running = {}
    /\ recent[1].request_id = 2
    /\ recent[2].request_id = 1
    /\ IsSome(recent[1].val)
    /\ RateLimited(recent[1]) = FALSE
    /\ ~Unwrap(recent[1].val).ok
    /\ IsSome(recent[2].scored)
    /\ ~Unwrap(recent[2].scored).result.ok
    /\ ui.blocked_requests = 2

---------------------------------------------------------------------------
(* The order of the counter increments and the log append *)

\* The admission has bumped the named counter
HasBumped(a, name) == \E i \in 1..Len(a.incs) : a.incs[i] = name

\* The admissions whose blocked record has been appended to the log,
\* whether or not the bounded log still holds it
BlockedAppended ==
    {a \in Started : /\ a.appended > 0
                     /\ IsSome(a.log)
                     /\ Unwrap(a.log).blocked}

\* The blocked records the log holds now
BlockedVisible == {r \in Records : r.blocked}

(* C25: With a sink, in every reachable state, including the states in     *)
(* the middle of concurrent admissions, the number of blocked records ever *)
(* appended to the log is at most blocked_requests, which is at most       *)
(* total_requests: an admission has bumped total_requests before any stage *)
(* runs and has bumped blocked_requests before it appends its blocked      *)
(* record, so no blocked record is in the log before it is counted.        *)
C25_CountBeforeAppend ==
    (ui.attached /\ Cardinality(Started) = nextId) =>
        /\ Cardinality(BlockedVisible) <= Cardinality(BlockedAppended)
        /\ Cardinality(BlockedAppended) <= ui.blocked_requests
        /\ ui.blocked_requests <= ui.total_requests
        /\ \A a \in Started : HasBumped(a, "total_requests")
        /\ \A a \in Started :
              (IsSome(a.log) /\ Unwrap(a.log).blocked) =>
                  HasBumped(a, "blocked_requests")
        /\ \A r \in BlockedVisible :
              \E a \in BlockedAppended : a.request_id = r.id

\* C25 witness: two admissions are in progress at once, both have counted
\* their rejection and neither has appended its blocked record yet
C25_Witness ==
    /\ ui.attached
    /\ \A t \in Tasks : /\ tasks[t].pc = "log"
                        /\ Unwrap(tasks[t].log).blocked
    /\ BlockedAppended = {}
    /\ ui.blocked_requests = 2
    /\ ui.total_requests = 2

---------------------------------------------------------------------------
(* Observation is transparent to the decision *)

\* The decision of stage 4 and after on context ctx, from the request and
\* the configuration alone
DecideThreats(a, ctx) ==
    IF ~config.threat_detection.enabled THEN Ok(ctx)
    ELSE LET r == detect_threats(config, a.request, ctx)
         IN  IF r.result.ok
             THEN Ok(r.context)
             ELSE Err(ThreatDetected("Suspicious request pattern", "High"))

\* The decision of stage 3 and after, from the validator's answer
DecideValidation(a, ctx) ==
    IF ~config.validation.enabled THEN DecideThreats(a, ctx)
    ELSE IF Unwrap(a.val).ok
         THEN DecideThreats(a, add_threat_score(ctx, Unwrap(a.val).add))
         ELSE Err(InvalidInput("Input validation failed", None))

\* The decision of stage 2 and after, from the authenticator's answer
DecideAuth(a, ctx) ==
    IF ~config.auth.enabled THEN DecideValidation(a, ctx)
    ELSE LET outcome == Unwrap(a.auth)
         IN  CASE outcome.kind = "invalid" -> Err(outcome.error)
               [] outcome.kind = "principal" ->
                    DecideValidation(a, with_user(ctx, outcome.user_id,
                                                  outcome.roles))
               [] OTHER ->
                    IF config.auth.require_auth
                    THEN Err(AuthenticationFailed("Authentication required"))
                    ELSE DecideValidation(a, ctx)

\* The decision on an admission as a function of its request, the
\* configuration and the checkers' answers: the sink is not an argument
Decision(a) ==
    IF config.rate_limit.enabled /\ ~Unwrap(a.lim).ok
    THEN Err(RateLimitExceeded(60))
    ELSE DecideAuth(a, ContextNew(a.request_id,
                                  extract_client_ip(a.request)))

\* A result without the request_id of its context
Contents(result) ==
    IF result.ok
    THEN [ok |-> TRUE,
          value |-> [f \in DOMAIN result.value \ {"request_id"} |->
                        result.value[f]]]
    ELSE result

\* The admissions that have their result: returned, or about to return
\* once the record is appended
Decided == {a \in Started : IsSome(a.ret)}

\* The sink holds what it held when the layer was built
SinkUntouched ==
    /\ ui = NewUIState(ui.attached)
    /\ \A a \in Started : a.incs = <<>> /\ a.appended = 0 /\ a.log = None

(* C26: Observation is transparent to the decision: the result of every    *)
(* admission, its Ok context other than request_id or its error, is the    *)
(* same function of the request, the configuration and the checkers'       *)
(* answers whether or not a sink is attached; and a layer built by         *)
(* SecurityLayer::new without with_ui_state updates no counter and appends *)
(* no record.                                                              *)
C26_SinkTransparent ==
    /\ \A a \in Decided : Contents(Unwrap(a.ret)) = Contents(Decision(a))
    /\ ~ui.attached => SinkUntouched

\* C26 witness: on a layer without a sink one admission was rejected on a
\* recording path and another was admitted, and the sink is untouched
C26_Witness ==
    /\ ~ui.attached
    /\ \E a \in Done : /\ ~Unwrap(a.ret).ok
                       /\ a \in TookValidationPath \cup TookThreatPath
    /\ \E a \in Done : Unwrap(a.ret).ok
    /\ ui.total_requests = 0
    /\ ui.request_logs = <<>>

===========================================================================
